---- MODULE Spec2Model ----
(***************************************************************************)
(* A model of crawl-http.js: the recursive crawl of an HTTP directory      *)
(* listing, its retries, its shared list of seen URLs and the tree it      *)
(* builds.                                                                  *)
(*                                                                         *)
(* JavaScript strings are modelled as sequences of one-character strings,  *)
(* so that concatenation (absURL + '/'), endsWith, startsWith, URL         *)
(* resolution and url.format are computed on characters as the code does.  *)
(* URLs are http URLs over characters the WHATWG URL parser leaves         *)
(* unchanged (letters in the path, lower-case hosts, digits, '.', '/'),    *)
(* with no port, no query and no fragment.                                 *)
(***************************************************************************)
EXTENDS Integers, Sequences, FiniteSets, TLC

(***************************************************************************)
(* Bounds of the model.                                                     *)
(***************************************************************************)
MaxAttemptsBound == 2
MaxDepth == 1

(***************************************************************************)
(* Character-string helpers (String.prototype methods).                     *)
(***************************************************************************)
StartsWith(s, p) ==
  /\ Len(s) >= Len(p)
  /\ SubSeq(s, 1, Len(p)) = p

EndsWith(s, p) ==
  /\ Len(s) >= Len(p)
  /\ SubSeq(s, Len(s) - Len(p) + 1, Len(s)) = p

Drop(s, n) == SubSeq(s, n + 1, Len(s))

\* name.slice(0, -1)
SliceLast(s) == SubSeq(s, 1, Len(s) - 1)

IndexOf(s, c) ==
  LET at == {i \in 1..Len(s) : s[i] = c}
  IN  IF at = {} THEN 0 ELSE CHOOSE i \in at : \A j \in at : i <= j

LastIndexOf(s, c) ==
  LET at == {i \in 1..Len(s) : s[i] = c}
  IN  IF at = {} THEN 0 ELSE CHOOSE i \in at : \A j \in at : j <= i

\* Strings are sequences of characters, paths sequences of strings.  The
\* recursive helpers are functions, so that an argument is evaluated once.
Str == Seq(STRING)
Segs == Seq(Str)

TrimStartOf[s \in Str] ==
  IF s # <<>> /\ Head(s) = " " THEN TrimStartOf[Tail(s)] ELSE s

TrimStart(s) == TrimStartOf[s]

TrimEndOf[s \in Str] ==
  IF s # <<>> /\ s[Len(s)] = " " THEN TrimEndOf[SliceLast(s)] ELSE s

TrimEnd(s) == TrimEndOf[s]

\* name.trim()
Trim(s) == TrimEnd(TrimStart(s))

\* s.split('/')
SplitOf[s \in Str] ==
  LET i == IndexOf(s, "/")
  IN  IF i = 0 THEN <<s>>
      ELSE <<SubSeq(s, 1, i - 1)>> \o SplitOf[Drop(s, i)]

Split(s) == SplitOf[s]

\* segs.join('/')
JoinOf[segs \in Segs] ==
  IF segs = <<>> THEN <<>>
  ELSE IF Len(segs) = 1 THEN segs[1]
  ELSE segs[1] \o <<"/">> \o JoinOf[Tail(segs)]

Join(segs) == JoinOf[segs]

Dot == <<".">>
DotDot == <<".", ".">>
HTTP == <<"h", "t", "t", "p", ":", "/", "/">>
UndefinedStr == <<"u", "n", "d", "e", "f", "i", "n", "e", "d">>

(***************************************************************************)
(* url.URL: a parsed URL is [valid, host, path], path a sequence of        *)
(* segments; the pathname is '/' followed by the segments joined by '/'.   *)
(***************************************************************************)
InvalidURL == [valid |-> FALSE, host |-> <<>>, path |-> <<>>]

\* The URL parser's path state: '..' shortens the path, '.' is dropped, and
\* either of them as the last segment leaves a trailing empty segment.
PathStateOf[path \in Segs, segs \in Segs] ==
  IF segs = <<>> THEN path
  ELSE LET seg == Head(segs)
           last == Len(segs) = 1
           next == IF seg = DotDot
                   THEN (IF path = <<>> THEN path ELSE SliceLast(path))
                          \o (IF last THEN << <<>> >> ELSE <<>>)
                   ELSE IF seg = Dot
                   THEN path \o (IF last THEN << <<>> >> ELSE <<>>)
                   ELSE Append(path, seg)
       IN  PathStateOf[next, Tail(segs)]

PathState(path, segs) == PathStateOf[path, segs]

\* new url.URL(input): an absolute URL; anything without a scheme throws.
URL1(input) ==
  IF ~StartsWith(input, HTTP) THEN InvalidURL
  ELSE LET rest == Drop(input, Len(HTTP))
           i == IndexOf(rest, "/")
           host == IF i = 0 THEN rest ELSE SubSeq(rest, 1, i - 1)
           pathStr == IF i = 0 THEN <<>> ELSE Drop(rest, i)
       IN  IF host = <<>> THEN InvalidURL
           ELSE [valid |-> TRUE, host |-> host,
                 path |-> PathState(<<>>, Split(pathStr))]

\* new url.URL(input, base): input resolved against the base URL string.
URL2(input, baseStr) ==
  LET base == URL1(baseStr)
  IN  IF ~base.valid THEN InvalidURL
      ELSE IF StartsWith(input, HTTP) THEN URL1(input)
      ELSE IF StartsWith(input, <<"/", "/">>) THEN URL1(HTTP \o Drop(input, 2))
      ELSE IF StartsWith(input, <<"/">>)
      THEN [valid |-> TRUE, host |-> base.host,
            path |-> PathState(<<>>, Split(Drop(input, 1)))]
      ELSE IF input = <<>> THEN base
      ELSE [valid |-> TRUE, host |-> base.host,
            path |-> PathState(SliceLast(base.path), Split(input))]

\* urlObj.pathname
Pathname(u) == <<"/">> \o Join(u.path)

\* url.format(urlObj)
Format(u) == HTTP \o u.host \o Pathname(u)

(***************************************************************************)
(* path.relative, path.isAbsolute, path.extname (posix).                    *)
(***************************************************************************)
\* path.resolve of an absolute path: empty and '.' segments are dropped,
\* '..' removes the segment before it.
NormalizeSegsOf[acc \in Segs, segs \in Segs] ==
  IF segs = <<>> THEN acc
  ELSE LET seg == Head(segs)
           next == IF seg = <<>> \/ seg = Dot THEN acc
                   ELSE IF seg = DotDot
                   THEN (IF acc = <<>> THEN acc ELSE SliceLast(acc))
                   ELSE Append(acc, seg)
       IN  NormalizeSegsOf[next, Tail(segs)]

NormalizeSegs(acc, segs) == NormalizeSegsOf[acc, segs]

PathResolve(p) == NormalizeSegs(<<>>, Split(p))

CommonPrefixLen(f, t) ==
  LET n == IF Len(f) < Len(t) THEN Len(f) ELSE Len(t)
  IN  CHOOSE k \in 0..n :
        /\ \A i \in 1..k : f[i] = t[i]
        /\ (k < n => f[k + 1] # t[k + 1])

\* The relative path between two resolved paths: one '..' for every segment
\* of f after the common prefix, then the rest of t.
RelativeOf[f \in Segs, t \in Segs] ==
  LET c == CommonPrefixLen(f, t)
      ups == [i \in 1..(Len(f) - c) |-> DotDot]
  IN  IF f = t THEN <<>>
      ELSE Join(ups \o SubSeq(t, c + 1, Len(t)))

PathRelative(from, to) == RelativeOf[PathResolve(from), PathResolve(to)]

PathIsAbsolute(p) == p # <<>> /\ p[1] = "/"

\* path.extname(p): from the last '.' of the last path component to the end;
\* empty when there is no '.', when the '.' starts the component, or for '..'.
ExtName(p) ==
  LET base == Drop(p, LastIndexOf(p, "/"))
      d == LastIndexOf(base, ".")
  IN  IF d <= 1 \/ base = DotDot THEN <<>>
      ELSE SubSeq(base, d, Len(base))

(***************************************************************************)
(* Options of crawl (opts) and the inputs the model draws from.             *)
(***************************************************************************)
\* fileTypes = ['wav', 'ogg', 'oga', 'mp3', 'mp4', 'm4a', 'mov', 'mpga', 'mod']
fileTypes ==
  << <<"w", "a", "v">>, <<"o", "g", "g">>, <<"o", "g", "a">>,
     <<"m", "p", "3">>, <<"m", "p", "4">>, <<"m", "4", "a">>,
     <<"m", "o", "v">>, <<"m", "p", "g", "a">>, <<"m", "o", "d">> >>

\* filterRegex: null, or /mp3$/ (the --regex option).
RegexNull == "null"
RegexMp3End == "mp3$"

\* filterRegex.test(linkURL)
RegexTest(re, str) ==
  IF re = RegexMp3End THEN EndsWith(str, <<"m", "p", "3">>) ELSE TRUE

Options ==
  [maxAttempts : 1..MaxAttemptsBound,
   keepSeparateHosts : BOOLEAN,
   stayInSameDirectory : BOOLEAN,
   keepAnyFileType : BOOLEAN,
   filterRegex : {RegexNull, RegexMp3End}]

\* The defaults of lines 19-27, for the maxAttempts the model allows.
IsDefault(o) ==
  /\ ~o.keepSeparateHosts
  /\ o.stayInSameDirectory
  /\ ~o.keepAnyFileType
  /\ o.filterRegex = RegexNull

HostA == HTTP \o <<"h", "o", "s", "t", "/", "a">>
RootSlash == HostA \o <<"/">>
RootNoSlash == HostA
RootMalformed == <<"h", "o", "s", "t", "/", "a", "/">>
RootURLs == {RootSlash, RootNoSlash, RootMalformed}

\* An anchor of a listing: its text and its href attribute, if it has one.
Anchor(text, href) == [text |-> text, hasHref |-> TRUE, href |-> href]
AnchorNoHref(text) == [text |-> text, hasHref |-> FALSE, href |-> <<>>]

Mp3 == <<".", "m", "p", "3">>
LinkB == Anchor(<<"b", "/">>, <<"b", "/">>)
LinkC == Anchor(<<"c">> \o Mp3, <<"c">> \o Mp3)
LinkCAgain == Anchor(<<" ", "c", " ">>, <<".", "/", "c">> \o Mp3)
LinkEscape == Anchor(<<"e", "s", "c", "a", "p", "e">> \o Mp3,
                     <<".", ".", "/", "e", "s", "c", "a", "p", "e">> \o Mp3)
LinkTxt == Anchor(<<"n">>, <<"n", ".", "t", "x", "t">>)
LinkUpper == Anchor(<<"u">>, <<"u", ".", "M", "P", "3">>)
LinkParent == Anchor(<<"u", "p">>, <<".", ".", "/">>)
LinkHostOnly == Anchor(<<"o">>, HTTP \o <<"o">> \o Mp3)
LinkFar == Anchor(<<"f", "a", "r">>, <<".", ".", "/", ".", ".", "/", "c">> \o Mp3)
LinkNoHref == AnchorNoHref(<<"t", "o", "p">>)

\* The listings a server may answer with.
Scenario == <<LinkB, LinkC, LinkEscape>>
Listings ==
  { Scenario,
    <<>>,
    <<LinkC, LinkCAgain, LinkTxt>>,
    <<LinkUpper, LinkNoHref>>,
    <<LinkParent, LinkC, LinkB>>,
    <<LinkHostOnly, LinkFar>> }

HasDirLink(listing) ==
  \E k \in 1..Len(listing) :
    listing[k].hasHref /\ EndsWith(listing[k].href, <<"/">>)

\* Directories nested deeper than MaxDepth list no further directories.
ListingsAt(depth) ==
  IF depth < MaxDepth THEN Listings
  ELSE {l \in Listings : ~HasDirLink(l)}

\* The bodies of responses with a non-success status (an error page).
ErrorPages == { <<>>, <<LinkC, LinkCAgain, LinkTxt>> }

\* What fetch may resolve with: a status flag and a body.
Responses(depth) ==
  {[ok |-> TRUE, body |-> l] : l \in ListingsAt(depth)}
    \cup {[ok |-> FALSE, body |-> l] : l \in ErrorPages}

(***************************************************************************)
(* State.                                                                   *)
(***************************************************************************)
VARIABLES
  opts,      \* the options of this top-level crawl
  rootURL,   \* the URL the caller passes
  stack,     \* the pending crawl calls, innermost last
  allURLs,   \* internals.allURLs, one array shared by every call
  outcome,   \* the promise the caller holds
  fetched,   \* history: the URLs fetch has been called with
  called,    \* history: the URLs crawl was called with (retries apart), in order
  listed     \* history: the URLs whose listing reached the link loop, in order

vars == <<opts, rootURL, stack, allURLs, outcome, fetched, called, listed>>

Range(seq) == {seq[k] : k \in 1..Len(seq)}
Top == stack[Len(stack)]
SetTop(f) == [stack EXCEPT ![Len(stack)] = f]

(***************************************************************************)
(* The pieces of crawl, one operator per decision of the code.              *)
(***************************************************************************)
\* What a pending call resolves to: {items}, or the bare [] of the catch.
ItemsObject(items) == [isArray |-> FALSE, items |-> items]
EmptyArray == [isArray |-> TRUE, items |-> <<>>]

\* The catch handler's value for 'FAILED_DOWNLOAD'.
GiveUpValue == EmptyArray

\* if (internals.attempts < maxAttempts)
ShouldRetry(attempts, maxAttempts) == attempts < maxAttempts

\* A faulty variant of FetchesIssuedByCall: the fetch is issued before the URL is parsed.
FetchBeforeParse(absURL) == {absURL}

\* new url.URL(absURL) runs before fetch(absURL): a call whose URL does not
\* parse throws and fetches nothing.
FetchesIssuedByCall(absURL) ==
  IF URL1(absURL).valid THEN {absURL} ELSE {}

\* A call of crawl(absURL, opts, internals) that has issued its fetch.
\* first, tries, urls and fresh are history: the attempt counter the chain of
\* retries started with, the number of fetches the chain has issued, and the
\* positions of the links whose URL was new when the loop examined them.
NewCall(absURL, name, attempts) ==
  [absURL |-> absURL, name |-> name, attempts |-> attempts,
   first |-> attempts, tries |-> 1,
   phase |-> "fetching", ok |-> TRUE,
   links |-> <<>>, i |-> 1, urls |-> <<>>, fresh |-> {}, items |-> <<>>,
   ret |-> EmptyArray]

\* getHTMLLinks: [text, href] of every anchor, href undefined when absent.
getHTMLLinks(body) ==
  [k \in 1..Len(body) |->
     [name |-> body[k].text, hasHref |-> body[k].hasHref, href |-> body[k].href]]

\* The name with one trailing slash removed, then trimmed.
LinkName(text) ==
  Trim(IF EndsWith(text, <<"/">>) THEN SliceLast(text) ELSE text)

\* The URL constructor stringifies its input: undefined becomes 'undefined'.
HrefString(link) == IF link.hasHref THEN link.href ELSE UndefinedStr

\* new url.URL(href, absURL + '/')
LinkURLObj(link, absURL) == URL2(HrefString(link), absURL \o <<"/">>)

\* A faulty variant of AlreadyDone: the lookup never matches (as when the raw href is
\* looked up in the list of resolved URLs).
AlreadyDoneNever(urls, linkURL) == FALSE

\* internals.allURLs.includes(linkURL)
AlreadyDone(urls, linkURL) == linkURL \in Range(urls)

\* A faulty variant of FailedRegex: the pattern is skipped with keepAnyFileType.
FailedRegexUnlessAnyType(o, linkURL) ==
  /\ o.filterRegex # RegexNull
  /\ ~o.keepAnyFileType
  /\ ~RegexTest(o.filterRegex, linkURL)

\* filterRegex && !filterRegex.test(linkURL)
FailedRegex(o, linkURL) ==
  o.filterRegex # RegexNull /\ ~RegexTest(o.filterRegex, linkURL)

\* !keepSeparateHosts && urlObj.host !== absURLObj.host
InconsistentHost(o, urlObj, absURLObj) ==
  ~o.keepSeparateHosts /\ urlObj.host # absURLObj.host

\* A faulty variant of OutsideParent: the startsWith('..') test is missing.
OutsideParentAbsoluteOnly(o, urlObj, absURLObj) ==
  /\ o.stayInSameDirectory
  /\ PathIsAbsolute(PathRelative(Pathname(absURLObj), Pathname(urlObj)))

\* stayInSameDirectory and the relative path leaves the directory.
OutsideParent(o, urlObj, absURLObj) ==
  /\ o.stayInSameDirectory
  /\ LET relative == PathRelative(Pathname(absURLObj), Pathname(urlObj))
     IN  StartsWith(relative, DotDot) \/ PathIsAbsolute(relative)

\* A faulty variant of RecordURL: the push stands after the checks.
RecordURLIfKept(urls, linkURL, rejected) ==
  IF rejected THEN urls ELSE Append(urls, linkURL)

\* A faulty variant of RecordURL: internals.allURLs.concat([linkURL]), which
\* builds a new array and leaves the shared one as it was.
RecordURLConcat(urls, linkURL, rejected) == urls

\* internals.allURLs.push(linkURL): it stands before the regex, host and
\* containment checks, so what they decide (rejected) does not matter to it.
RecordURL(urls, linkURL, rejected) == Append(urls, linkURL)

\* Object.assign({}, internals): the child call is handed a copy of the
\* caller's internals, its attempts included.
ChildAttempts(attempts) == attempts

\* A faulty variant of PhaseDuringChild: the await is missing.
PhaseWithoutAwait == "loop"

\* items.push(await crawl(...)): the loop is suspended until the child settles.
PhaseDuringChild == "awaiting"

\* A faulty variant of IsDirectoryHref: href.endsWith without the call,
\* which is always truthy.
IsDirectoryHrefAlways(href) == TRUE

\* href.endsWith('/')
IsDirectoryHref(href) == EndsWith(href, <<"/">>)

\* A faulty variant of BadExtension: fileTypes is searched, without the dots.
BadExtensionNoDot(o, href) ==
  /\ ~o.keepAnyFileType
  /\ ExtName(href) \notin {fileTypes[k] : k \in 1..Len(fileTypes)}

\* !keepAnyFileType && !extensions.includes(path.extname(href))
BadExtension(o, href) ==
  /\ ~o.keepAnyFileType
  /\ ExtName(href) \notin {<<".">> \o fileTypes[k] : k \in 1..Len(fileTypes)}

FileItem(name, linkURL) ==
  [type |-> "file", name |-> name, downloaderArg |-> linkURL]

\* .then(({ items }) => ({name, items})): items is undefined when the child
\* resolved to an array. src is history: the URL the child was crawled at.
DirItem(name, ret, src) ==
  [type |-> "dir", name |-> name, hasItems |-> ~ret.isArray,
   items |-> ret.items, src |-> src]

\* A faulty variant of Push: items.unshift(item).
PushFront(items, item) == <<item>> \o items

\* items.push(item)
Push(items, item) == Append(items, item)

\* Rejection of the promise: nothing catches an error other than
\* 'FAILED_DOWNLOAD', so it passes every pending call up to the caller.
Rejected(error) == [state |-> "rejected", error |-> error]

(***************************************************************************)
(* Actions.                                                                 *)
(***************************************************************************)
Init ==
  /\ opts \in Options
  /\ rootURL \in RootURLs
  /\ stack = <<>>
  /\ allURLs = <<>>
  /\ outcome = [state |-> "idle"]
  /\ fetched = {}
  /\ called = <<>>
  /\ listed = <<>>

\* main calls crawl(url, opts): lines 30-45 of the outermost call.
CrawlRoot ==
  /\ outcome.state = "idle"
  /\ fetched' = fetched \cup FetchesIssuedByCall(rootURL)
  /\ IF URL1(rootURL).valid
     THEN /\ stack' = <<NewCall(rootURL, <<>>, 0)>>
          /\ called' = Append(called, rootURL)
          /\ outcome' = [state |-> "pending"]
     ELSE /\ stack' = <<>>
          /\ outcome' = Rejected("ERR_INVALID_URL")
          /\ UNCHANGED called
  /\ UNCHANGED <<opts, rootURL, allURLs, listed>>

\* fetch rejects (a network error): retry, or throw 'FAILED_DOWNLOAD', which
\* the catch of the same call turns into its value.
FetchRejects ==
  /\ stack # <<>>
  /\ Top.phase = "fetching"
  /\ IF ShouldRetry(Top.attempts, opts.maxAttempts)
     THEN /\ stack' = SetTop([Top EXCEPT !.attempts = @ + 1, !.tries = @ + 1])
          /\ fetched' = fetched \cup FetchesIssuedByCall(Top.absURL)
     ELSE /\ stack' = SetTop([Top EXCEPT !.phase = "settled", !.ret = GiveUpValue])
          /\ UNCHANGED fetched
  /\ UNCHANGED <<opts, rootURL, allURLs, outcome, called, listed>>

\* fetch resolves with a response of any status and res.text() resolves:
\* the body goes to getHTMLLinks and the loop over the links starts.
FetchResolves ==
  /\ stack # <<>>
  /\ Top.phase = "fetching"
  /\ \E res \in Responses(Len(stack) - 1) :
       stack' = SetTop([Top EXCEPT !.phase = "loop", !.ok = res.ok,
                                   !.links = getHTMLLinks(res.body),
                                   !.i = 1, !.urls = <<>>, !.fresh = {},
                                   !.items = <<>>])
  /\ listed' = Append(listed, Top.absURL)
  /\ UNCHANGED <<opts, rootURL, allURLs, outcome, fetched, called>>

\* fetch resolves but res.text() rejects (the body cannot be read).
TextRejects ==
  /\ stack # <<>>
  /\ Top.phase = "fetching"
  /\ stack' = <<>>
  /\ outcome' = Rejected("FetchError")
  /\ UNCHANGED <<opts, rootURL, allURLs, fetched, called, listed>>

\* One iteration of the loop over the links (lines 52-117).
\* The constants of the iteration (link, absURLObj, urlObj, linkURL and the
\* outcome of the three policy checks) are each bound to their one value.
ProcessLink ==
  /\ stack # <<>>
  /\ Top.phase = "loop"
  /\ Top.i <= Len(Top.links)
  /\ \E link \in {Top.links[Top.i]}, absURLObj \in {URL1(Top.absURL)} :
     \E urlObj \in {LinkURLObj(link, Top.absURL)} :
     \E linkURL \in {Format(urlObj)} :
     \E rejected \in {\/ FailedRegex(opts, linkURL)
                      \/ InconsistentHost(opts, urlObj, absURLObj)
                      \/ OutsideParent(opts, urlObj, absURLObj)} :
     LET name == LinkName(link.name)
         skip == SetTop([Top EXCEPT !.i = @ + 1, !.urls = Append(@, linkURL)])
         seen == [Top EXCEPT !.i = @ + 1, !.urls = Append(@, linkURL),
                             !.fresh = @ \cup {Top.i}]
     IN  IF ~urlObj.valid
         THEN /\ stack' = <<>>
              /\ outcome' = Rejected("ERR_INVALID_URL")
              /\ UNCHANGED <<allURLs, fetched, called>>
         ELSE IF AlreadyDone(allURLs, linkURL)
         THEN /\ stack' = skip
              /\ UNCHANGED <<allURLs, outcome, fetched, called>>
         ELSE /\ allURLs' = RecordURL(allURLs, linkURL, rejected)
              /\ IF rejected
                 THEN /\ stack' = SetTop(seen)
                      /\ UNCHANGED <<outcome, fetched, called>>
                 ELSE IF ~link.hasHref
                 THEN \* undefined.endsWith
                      /\ stack' = <<>>
                      /\ outcome' = Rejected("TypeError")
                      /\ UNCHANGED <<fetched, called>>
                 ELSE IF IsDirectoryHref(link.href)
                 THEN /\ fetched' = fetched \cup FetchesIssuedByCall(linkURL)
                      /\ called' = Append(called, linkURL)
                      /\ stack' = Append(SetTop([seen EXCEPT !.phase = PhaseDuringChild]),
                                         NewCall(linkURL, name, ChildAttempts(Top.attempts)))
                      /\ UNCHANGED outcome
                 ELSE IF BadExtension(opts, link.href)
                 THEN /\ stack' = SetTop(seen)
                      /\ UNCHANGED <<outcome, fetched, called>>
                 ELSE /\ stack' = SetTop([seen EXCEPT
                              !.items = Push(@, FileItem(name, linkURL))])
                      /\ UNCHANGED <<outcome, fetched, called>>
  /\ UNCHANGED <<opts, rootURL, listed>>

\* The loop is over: return {items}.
LoopEnds ==
  /\ stack # <<>>
  /\ Top.phase = "loop"
  /\ Top.i > Len(Top.links)
  /\ stack' = SetTop([Top EXCEPT !.phase = "settled", !.ret = ItemsObject(Top.items)])
  /\ UNCHANGED <<opts, rootURL, allURLs, outcome, fetched, called, listed>>

\* A settled call hands its value to the call awaiting it, which pushes the
\* directory item, or to the caller of the outermost crawl.
Return ==
  /\ stack # <<>>
  /\ Top.phase = "settled"
  /\ IF Len(stack) = 1
     THEN /\ stack' = <<>>
          /\ outcome' = [state |-> "resolved", value |-> Top.ret]
     ELSE LET parent == stack[Len(stack) - 1]
          IN  /\ stack' = Append(SubSeq(stack, 1, Len(stack) - 2),
                   [parent EXCEPT !.phase = "loop",
                      !.items = Push(@, DirItem(Top.name, Top.ret, Top.absURL))])
              /\ UNCHANGED outcome
  /\ UNCHANGED <<opts, rootURL, allURLs, fetched, called, listed>>

Next ==
  \/ CrawlRoot
  \/ FetchRejects
  \/ FetchResolves
  \/ TextRejects
  \/ ProcessLink
  \/ LoopEnds
  \/ Return

Spec == Init /\ [][Next]_vars

\* Every continuation that can run does run: fetch settles, and the event
\* loop runs the handlers of settled promises.
FairSpec == Spec /\ WF_vars(Next)

(***************************************************************************)
(* Views of the state used by the properties.                               *)
(***************************************************************************)
\* The source URL of every entry of a list of items, at any depth, in order.
RECURSIVE EntrySources(_)
EntrySources(items) ==
  IF items = <<>> THEN <<>>
  ELSE LET e == Head(items)
       IN  (IF e.type = "dir"
            THEN <<e.src>> \o EntrySources(e.items)
            ELSE <<e.downloaderArg>>)
           \o EntrySources(Tail(items))

\* The file entries of a list of items, at any depth.
RECURSIVE FileEntries(_)
FileEntries(items) ==
  IF items = <<>> THEN {}
  ELSE LET e == Head(items)
       IN  (IF e.type = "dir" THEN FileEntries(e.items) ELSE {e})
           \cup FileEntries(Tail(items))

RECURSIVE Flatten(_)
Flatten(seqs) ==
  IF seqs = <<>> THEN <<>> ELSE Head(seqs) \o Flatten(Tail(seqs))

\* Every list of items there is: those under construction, outermost call
\* first, and the one handed to the caller.
ItemLists ==
  [k \in 1..Len(stack) |-> stack[k].items]
    \o (IF outcome.state = "resolved" THEN <<outcome.value.items>> ELSE <<>>)

\* The source URLs of all entries of the tree built so far.
TreeSources == Flatten([k \in 1..Len(ItemLists) |-> EntrySources(ItemLists[k])])

NoDuplicates(seq) ==
  \A j, k \in 1..Len(seq) : j # k => seq[j] # seq[k]

RECURSIVE IsSubsequence(_, _)
IsSubsequence(sub, seq) ==
  IF sub = <<>> THEN TRUE
  ELSE IF seq = <<>> THEN FALSE
  ELSE IF Head(sub) = Head(seq) THEN IsSubsequence(Tail(sub), Tail(seq))
  ELSE IsSubsequence(sub, Tail(seq))

IsPrefix(p, q) == Len(p) <= Len(q) /\ SubSeq(q, 1, Len(p)) = p

\* The path of urlStr lies in the directory tree under the path of dirStr.
PathWithin(urlStr, dirStr) ==
  IsPrefix(PathResolve(Pathname(URL1(dirStr))), PathResolve(Pathname(URL1(urlStr))))

\* The URLs the first n links of a call's listing resolve to.
LinkURLs(f, n) ==
  [k \in 1..n |-> Format(LinkURLObj(f.links[k], f.absURL))]

ItemSource(e) == IF e.type = "dir" THEN e.src ELSE e.downloaderArg

RootAccepted == URL1(rootURL).valid

\* A call that has given up: all its fetches failed.
GaveUp(f) == f.phase = "settled" /\ f.ret.isArray

\* The number of links of call f the loop is done with.
Decided(f) ==
  IF f.phase = "fetching" \/ GaveUp(f) THEN 0
  ELSE IF f.phase = "awaiting" THEN f.i - 2
  ELSE f.i - 1

\* The number of links of call f the loop has examined.
Examined(f) == IF f.phase = "fetching" \/ GaveUp(f) THEN 0 ELSE f.i - 1

LinkURL(f, n) == Format(LinkURLObj(f.links[n], f.absURL))

(***************************************************************************)
(* Properties.                                                              *)
(***************************************************************************)
\* C1: a crawl of a URL that starts with attempt counter 0 and whose every
\* fetch fails has issued exactly maxAttempts fetches when it gives up.
C1_ExactlyMaxAttemptsFetches ==
  \A k \in 1..Len(stack) :
    (GaveUp(stack[k]) /\ stack[k].first = 0)
      => stack[k].tries = opts.maxAttempts

\* C2: the value crawl resolves to is Directory-shaped: a record with an
\* items sequence, {items: []} after the root exhausted its attempts.
C2_ResultIsDirectoryShaped ==
  outcome.state = "resolved" => ~outcome.value.isArray

\* C3: once the root URL has been accepted, no error reaches the caller.
C3_NeverRejectsMidTraversal ==
  RootAccepted => outcome.state # "rejected"

\* C4: the body of a response with a non-success status is never passed to
\* the link extractor: no call loops over the links of such a response.
C4_NonSuccessStatusIsFailure ==
  \A k \in 1..Len(stack) :
    stack[k].phase \in {"loop", "awaiting"} => stack[k].ok

\* C5: no resolved URL is the source of more than one entry of the tree, at
\* any depth and at any moment of its construction.
C5_NoDuplicateEntries == NoDuplicates(TreeSources)

\* C5 witness: the outermost call has finished a listing in which two links
\* resolve to the same URL, and kept an entry for it.
C5_Witness ==
  /\ Len(stack) = 1
  /\ Top.phase = "settled"
  /\ ~Top.ret.isArray
  /\ \E j, k \in 1..Len(Top.links) :
       /\ j < k
       /\ LinkURLs(Top, k)[j] = LinkURLs(Top, k)[k]
       /\ \E n \in 1..Len(Top.items) : ItemSource(Top.items[n]) = LinkURLs(Top, k)[j]

\* C6: with stayInSameDirectory, the path of every entry's source URL, at
\* any depth, lies within the directory of the root URL's path.
C6_EntriesWithinRoot ==
  opts.stayInSameDirectory =>
    \A u \in Range(TreeSources) : PathWithin(u, rootURL)

\* C6 witness: with stayInSameDirectory the crawl resolved to a tree with an
\* entry two levels down, after a link leaving the root was skipped.
C6_Witness ==
  /\ opts.stayInSameDirectory
  /\ outcome.state = "resolved"
  /\ ~outcome.value.isArray
  /\ \E k \in 1..Len(outcome.value.items) :
       /\ outcome.value.items[k].type = "dir"
       /\ outcome.value.items[k].items # <<>>
  /\ \E u \in Range(allURLs) : ~PathWithin(u, rootURL)

\* C7: the entries of every directory under construction are, in order, a
\* subsequence of the URLs its listing's links resolve to.
C7_ItemsInLinkOrder ==
  /\ \A k \in 1..Len(stack) :
       LET f == stack[k]
           done == IF f.phase = "awaiting" THEN f.i - 2 ELSE f.i - 1
       IN  f.phase # "fetching" =>
             IsSubsequence([n \in 1..Len(f.items) |-> ItemSource(f.items[n])],
                           SubSeq(f.urls, 1, IF done < 0 THEN 0 ELSE done))
  /\ \A k \in 1..Len(stack) :
       /\ Len(stack[k].urls) = Examined(stack[k])
       /\ (k = Len(stack) /\ stack[k].urls # <<>>)
            => stack[k].urls[Len(stack[k].urls)] = LinkURL(stack[k], Len(stack[k].urls))

\* C7 witness: a directory that already holds an entry awaits a child that
\* needed a retry before its listing arrived, with a skipped link before.
C7_Witness ==
  /\ Len(stack) = 2
  /\ stack[1].items # <<>>
  /\ stack[1].i - 2 > Len(stack[1].items)
  /\ stack[2].phase = "settled"
  /\ stack[2].tries >= 2
  /\ ~stack[2].ret.isArray

\* C8: for root http://host/a/ with links b/, c.mp3, ../escape.mp3 and the
\* default options the items are exactly the directory b and the file c.mp3
\* with reference http://host/a/c.mp3.
C8_ScenarioResult ==
  ( /\ Len(stack) = 1
    /\ rootURL = RootSlash
    /\ IsDefault(opts)
    /\ Top.phase = "settled"
    /\ Top.ok
    /\ ~Top.ret.isArray
    /\ Top.links = getHTMLLinks(Scenario) )
  => /\ Len(Top.ret.items) = 2
     /\ Top.ret.items[1].type = "dir"
     /\ Top.ret.items[1].name = <<"b">>
     /\ Top.ret.items[2] = FileItem(<<"c">> \o Mp3, RootSlash \o <<"c">> \o Mp3)

\* C9: without keepAnyFileType the reference of every file entry ends with
\* '.' followed by one of the configured extensions.
C9_FileReferencesEndWithExtension ==
  ~opts.keepAnyFileType =>
    \A n \in 1..Len(ItemLists) :
      \A e \in FileEntries(ItemLists[n]) :
        \E t \in Range(fileTypes) : EndsWith(e.downloaderArg, <<".">> \o t)

\* C10: a malformed root URL fails the crawl at once and no fetch is issued
\* for it, then or later.
C10_NoFetchForMalformedRoot ==
  ~RootAccepted =>
    /\ fetched = {}
    /\ stack = <<>>
    /\ outcome.state \in {"idle", "rejected"}

\* C10 witness: the crawl of a malformed root URL has failed.
C10_Witness ==
  /\ ~RootAccepted
  /\ outcome.state = "rejected"

(***************************************************************************)
(* Further views of the state.                                              *)
(***************************************************************************)
\* The directory entries of a list of items, at any depth.
RECURSIVE DirEntries(_)
DirEntries(items) ==
  IF items = <<>> THEN {}
  ELSE LET e == Head(items)
       IN  (IF e.type = "dir" THEN {e} \cup DirEntries(e.items) ELSE {})
           \cup DirEntries(Tail(items))

AllDirEntries == UNION {DirEntries(ItemLists[n]) : n \in 1..Len(ItemLists)}
AllFileEntries == UNION {FileEntries(ItemLists[n]) : n \in 1..Len(ItemLists)}

\* Link n of call f passes the regex, host and containment checks.
PassesScope(f, n) ==
  \A urlObj \in {LinkURLObj(f.links[n], f.absURL)}, absURLObj \in {URL1(f.absURL)} :
    /\ opts.filterRegex # RegexNull => RegexTest(opts.filterRegex, Format(urlObj))
    /\ opts.keepSeparateHosts \/ urlObj.host = absURLObj.host
    /\ ~opts.stayInSameDirectory
         \/ ~StartsWith(PathRelative(Pathname(absURLObj), Pathname(urlObj)), DotDot)

\* Link n of call f has an href and passes every check, the extension
\* check included when it is a file link.
Acceptable(f, n) ==
  LET l == f.links[n]
  IN  /\ l.hasHref
      /\ PassesScope(f, n)
      /\ \/ EndsWith(l.href, <<"/">>)
         \/ opts.keepAnyFileType
         \/ \E t \in Range(fileTypes) : ExtName(l.href) = <<".">> \o t

\* The URLs of the calls pending under the outermost one.
PendingChildren == {stack[k].absURL : k \in 2..Len(stack)}

Done == outcome.state \in {"resolved", "rejected"}

(***************************************************************************)
(* Properties, continued.                                                   *)
(***************************************************************************)
\* C11: with a filterRegex, every entry's URL matches it, whatever
\* keepAnyFileType is, and no URL failing it is crawled or fetched
\* (the root, which no link led to, apart).
C11_RegexFiltersEveryEntry ==
  opts.filterRegex # RegexNull =>
    /\ \A sources \in {TreeSources} :
         \A u \in Range(sources) : RegexTest(opts.filterRegex, u)
    /\ \A k \in 2..Len(called) : RegexTest(opts.filterRegex, called[k])
    /\ \A u \in fetched \ {rootURL} : RegexTest(opts.filterRegex, u)

\* C11 witness: with /mp3$/ the outermost call finished the listing b/,
\* c.mp3, ../escape.mp3: it kept c.mp3 and never fetched b/.
C11_Witness ==
  /\ opts.filterRegex = RegexMp3End
  /\ Len(stack) = 1
  /\ Top.phase = "settled"
  /\ Top.links = getHTMLLinks(Scenario)
  /\ \E n \in 1..Len(Top.items) : Top.items[n].name = <<"c">> \o Mp3
  /\ LinkURL(Top, 1) \in Range(allURLs)
  /\ fetched = {rootURL}

\* C12: the first fetch of every crawled URL is made with attempt counter 0.
C12_ChildStartsAtZero ==
  \A k \in 1..Len(stack) : stack[k].first = 0

\* C13: every Directory entry, at any depth, carries an items sequence
\* (an empty one when the directory exhausted its attempts).
C13_DirectoryNodesCarryItems ==
  \A e \in AllDirEntries : e.hasItems

\* C14: the URL of every link the loop has examined is in allURLs, kept or
\* not, and allURLs holds no URL twice: a later link resolving to a recorded
\* URL is skipped.
C14_ExaminedLinksAreRecorded ==
  /\ \A f \in Range(stack) :
       \A us \in {f.urls} :
         /\ Range(us) \subseteq Range(allURLs)
         /\ \A n \in 1..Decided(f) :
              (n \notin f.fresh /\ \E m \in 1..Len(f.items) : ItemSource(f.items[m]) = us[n])
                => \E j \in 1..(n - 1) : us[j] = us[n]
  /\ NoDuplicates(allURLs)

\* C14 witness: a link was skipped because its URL had been recorded by a
\* link that a policy check rejected, so the tree has no entry for it.
C14_Witness ==
  /\ Len(stack) = 1
  /\ Top.phase = "settled"
  /\ ~Top.ret.isArray
  /\ \E n \in 1..Len(Top.links) :
       /\ n \notin Top.fresh
       /\ LinkURL(Top, n) \in Range(allURLs)
       /\ LinkURL(Top, n) \notin Range(TreeSources)

\* C15: allURLs only grows, by appending, and what any call at any depth
\* recorded stays visible: the URL of every call made and of every entry of
\* the tree is in it.
C15_VisitedSharedAndGrowing ==
  /\ [](/\ \A k \in 2..Len(called) : called[k] \in Range(allURLs)
        /\ \A sources \in {TreeSources} : Range(sources) \subseteq Range(allURLs))
  /\ [][IsPrefix(allURLs, allURLs')]_vars

\* C15 witness: after a retry of the root, a child call has returned a
\* non-empty directory and its URLs are in the list the root goes on with.
C15_Witness ==
  /\ Len(stack) = 1
  /\ Top.tries >= 2
  /\ Top.phase = "loop"
  /\ \E e \in DirEntries(Top.items) :
       /\ e.items # <<>>
       /\ ItemSource(e.items[1]) \in Range(allURLs)

\* C16: every call but the outermost was made for a link whose raw href
\* ends with '/', whose URL was new and passed the regex, host and
\* containment checks; fetch is called with no other URL than the root's
\* and theirs, and never with the URL of a file entry.
C16_FetchesOnlyForDirectories ==
  /\ \A k \in 2..Len(stack) :
       \A p \in {stack[k - 1]} : \A n \in {p.i - 1} :
           /\ p.links[n].hasHref
           /\ EndsWith(p.links[n].href, <<"/">>)
           /\ p.urls[n] = stack[k].absURL
           /\ n \in p.fresh
           /\ PassesScope(p, n)
  /\ fetched = Range(called)
  /\ ~Done =>
       fetched \subseteq {rootURL} \cup PendingChildren
                           \cup {e.src : e \in AllDirEntries}
  /\ \A e \in AllFileEntries : e.downloaderArg \notin fetched \ {rootURL}

\* C16 witness: the crawl resolved with a file entry and a directory entry,
\* a link was skipped, and fetch was called for the root and the directory.
C16_Witness ==
  /\ outcome.state = "resolved"
  /\ AllFileEntries # {}
  /\ AllDirEntries # {}
  /\ Len(allURLs) > Len(TreeSources)
  /\ Cardinality(fetched) = 2

\* C17: no URL, the root's included, has its listing processed twice.
C17_ListedAtMostOnce == NoDuplicates(listed)

\* C18: every examined link that passes the checks from its listing's
\* directory has an entry in the tree, or is being crawled.
C18_AcceptableLinksHaveEntries ==
  \A f \in Range(stack) :
    \A n \in 1..Examined(f) :
      Acceptable(f, n) =>
        LinkURL(f, n) \in Range(TreeSources) \cup PendingChildren

\* C18, amended: every link whose URL was new when the loop examined it and
\* that passes the checks has an entry in the items of its own directory.
C18_NewAcceptableLinksHaveEntries ==
  \A f \in Range(stack) :
    \A n \in f.fresh :
      \/ n > Decided(f)
      \/ \E m \in 1..Len(f.items) : ItemSource(f.items[m]) = f.urls[n]
      \/ ~Acceptable(f, n)

\* C18 witness: a directory one level down has finished a listing and kept
\* a file whose URL was new.
C18_Witness ==
  /\ Len(stack) = 2
  /\ Top.phase = "settled"
  /\ \E n \in Top.fresh :
       /\ Acceptable(Top, n)
       /\ \E m \in 1..Len(Top.items) : Top.items[m].type = "file"

\* C19: only the innermost call is active; every other pending call is
\* suspended in its loop awaiting the call above it, so at most one fetch
\* is in flight and one loop runs.
C19_OnlyInnermostCallRuns ==
  /\ \A k \in 1..(Len(stack) - 1) : stack[k].phase = "awaiting"
  /\ stack # <<>> => Top.phase \in {"fetching", "loop", "settled"}
  /\ Cardinality({k \in 1..Len(stack) : stack[k].phase = "fetching"}) <= 1

\* C19 witness: a child is fetching again after a failure while its parent,
\* with links left, waits.
C19_Witness ==
  /\ Len(stack) = 2
  /\ Top.phase = "fetching"
  /\ Top.tries >= 2
  /\ stack[1].i <= Len(stack[1].links)

\* The fetches of a list of pending calls.
RECURSIVE SumTries(_)
SumTries(calls) ==
  IF calls = <<>> THEN 0 ELSE Head(calls).tries + SumTries(Tail(calls))

\* A lower bound of the number of fetches issued so far: those of the
\* pending calls, and one at least for every call that has returned.
FetchesAtLeast == SumTries(stack) + (Len(called) - Len(stack))

\* C20: the number of fetches is at most the number of distinct URLs
\* fetched, plus one for the root, times the attempt budget maxAttempts.
C20_FetchesWithinBudget ==
  FetchesAtLeast <= (Cardinality(fetched) + 1) * opts.maxAttempts

\* C20, the part that holds: every crawl completes, whatever fails and
\* whatever links to what; no call fetches more than maxAttempts + 1 times
\* and at most one call more is made than there are distinct URLs fetched.
C20_CrawlCompletes ==
  /\ <>Done
  /\ [](/\ \A k \in 1..Len(stack) : stack[k].tries <= opts.maxAttempts + 1
        /\ Len(called) <= Cardinality(fetched) + 1)

====
